---- MODULE Spec2Model ----
(***************************************************************************)
(* Model of tutorials/Darcy_equation (a Jupyter notebook).                 *)
(*                                                                         *)
(* The notebook is a script: its code cells run top to bottom, one         *)
(* statement after the other.  Spec is that run.  The cells 6 and 8 define *)
(* classes and a function; SpecAssign applies assign_darcy_data to         *)
(* arbitrary grid buckets and SpecParam applies the parameter functions of *)
(* MatrixDomain / FractureDomain to arbitrary grids.                       *)
(*                                                                         *)
(* The porepy library the notebook calls (grids, meshing, Parameters,      *)
(* BoundaryCondition, Elliptic) is not part of src/.  What the library      *)
(* computes (face tags, meshes, solutions of the linear system) is drawn   *)
(* from bounded sets; what it stores is modelled from the notebook's own   *)
(* text and from spec.md.                                                  *)
(*                                                                         *)
(* Python values are records with a cls field; arrays are sequences, so    *)
(* the Python index i is the position i + 1.                               *)
(***************************************************************************)
EXTENDS Integers, Sequences, FiniteSets, TLC

VARIABLES pc, classes, g, param, dir_bound, bc_cond, src, d, problem, p,
          gb, calls, nextId, ret

vars == <<pc, classes, g, param, dir_bound, bc_cond, src, d, problem, p,
          gb, calls, nextId, ret>>

----------------------------------------------------------------------------
(* Bounds of the model *)

\* most faces of a grid whose face tags are drawn
MaxFaces == 2
\* most lower-dimensional grids the mesher returns for the fracture
MaxFrac == 2
\* most cells of one fracture grid returned by the mesher
MaxFracCells == 1
\* the solutions of a linear system are drawn from 0..MaxSol (see Solution)
MaxSol == 1
\* most grids of a bucket handed to assign_darcy_data in SpecAssign
MaxGrids == 3
\* most cells of a grid handed to the parameter functions in SpecParam
MaxCells == 2
\* the grids of SpecAssign and SpecParam have a dimension in 0..MaxDim
MaxDim == 3

(* Program constants *)

\* g = CartGrid([11, 11])
GridNx == 11
GridNy == 11
\* src[60] = 1
SrcIndex == 60
\* gb = meshing.cart_grid([f], [10,10])
MatrixNx == 10
MatrixNy == 10
\* the dimension assign_darcy_data compares g.dim with
MatrixDim == 2
\* tensor.SecondOrder(2, kxx)
TensorDim == 2
\* kxx = 100 * np.ones(...)
KxxFactor == 100
\* val = 0.01 * np.ones(...): 0.01 is ApertureNum / ApertureDen
ApertureNum == 1
ApertureDen == 100

----------------------------------------------------------------------------
(* Python values *)

None == [cls |-> "None"]

Str(s) == [cls |-> "str", val |-> s]

NdArray(data) == [cls |-> "ndarray", data |-> data]

EmptyDict == [k \in {} |-> None]

\* dct[k] = v
Put(dct, k, v) == [x \in (DOMAIN dct) \cup {k} |-> IF x = k THEN v ELSE dct[x]]

\* [v] * n
Repeat(v, n) == [i \in 1..n |-> v]

\* a variant of Zeros that fills with ones, as FractureDomain.source does
OnesForZeros(n) == Repeat(1, n)

\* np.zeros(n), np.ones(n)
Zeros(n) == Repeat(0, n)
Ones(n) == Repeat(1, n)

RECURSIVE Gcd(_, _)
Gcd(a, b) == IF b = 0 THEN a ELSE Gcd(b, a % b)

\* the number num / den in lowest terms
Rat(num, den) == LET k == Gcd(num, den)
                 IN  IF k = 0 THEN [num |-> 0, den |-> 1]
                     ELSE [num |-> num \div k, den |-> den \div k]

\* c * v for a number c = [num, den] and an array v of integers
ScalarMul(c, v) == [i \in DOMAIN v |-> Rat(c.num * v[i], c.den)]

\* np.ravel(np.argwhere(mask)): the Python indices of the true entries, ascending
RECURSIVE ArgWhere(_)
ArgWhere(mask) ==
    IF mask = <<>> THEN <<>>
    ELSE LET n == Len(mask)
             front == ArgWhere(SubSeq(mask, 1, n - 1))
         IN  IF mask[n] THEN Append(front, n - 1) ELSE front

\* Python's round(n / 2) for an integer n >= 0: halves go to the even neighbour
RoundHalf(n) ==
    LET q == n \div 2
    IN  IF n % 2 = 0 THEN q
        ELSE IF q % 2 = 0 THEN q ELSE q + 1

----------------------------------------------------------------------------
(* Grids and their face tags *)

FaceTags == {"BOUNDARY", "DOMAIN_BOUNDARY", "FRACTURE"}

\* The tag combinations a face of an unfractured grid is drawn with: any
\* combination of the two tags the notebook reads.
PlainFaceTagSets == SUBSET {"BOUNDARY", "DOMAIN_BOUNDARY"}

\* The tag combinations a face of a grid of a fractured domain is drawn with:
\* those, and a face on a fracture (an internal boundary).
FaceTagSets == PlainFaceTagSets \cup {{"BOUNDARY", "FRACTURE"}}

\* every tagging of at most n faces with the combinations of tagSets
FaceTaggings(n, tagSets) == UNION {[1..k -> tagSets] : k \in 0..n}

Grid(id, dim, num_cells, face_tags) ==
    [cls |-> "Grid", id |-> id, dim |-> dim, num_cells |-> num_cells,
     face_tags |-> face_tags, geometry |-> FALSE]

\* g.has_face_tag(tag): one boolean per face
HasFaceTag(grid, tag) == [i \in DOMAIN grid.face_tags |-> tag \in grid.face_tags[i]]

\* bc.BoundaryCondition(g, faces, cond)
BoundaryCondition(grid, faces, cond) ==
    [cls |-> "BoundaryCondition", grid |-> grid.id, faces |-> faces, cond |-> cond]

\* a variant of DirBound that reads the DOMAIN_BOUNDARY tag
DirBoundDomainTag(grid) == ArgWhere(HasFaceTag(grid, "DOMAIN_BOUNDARY"))

\* np.ravel(np.argwhere((g.has_face_tag(FaceTag.BOUNDARY))))
DirBound(grid) == ArgWhere(HasFaceTag(grid, "BOUNDARY"))

----------------------------------------------------------------------------
(* The classes: cell 6 (MatrixDomain, FractureDomain), cell 8 (DarcyMPFA)  *)
(* and the library classes they extend.                                    *)

ParamFunctions == {"bc", "permeability", "source", "aperture"}

\* class X(Base)
ClassBase(cls) ==
    CASE cls = "MatrixDomain"   -> "EllipticData"
      [] cls = "FractureDomain" -> "MatrixDomain"
      [] cls = "DarcyMPFA"      -> "Elliptic"
      [] OTHER                  -> "object"

\* the attributes of the library's data class: its constructor, grid() and
\* the parameter functions a subclass may overload
EllipticDataMethods == {"__init__", "grid"} \cup ParamFunctions

\* the attributes of the library's solver class
EllipticMethods == {"__init__", "solve", "split", "flux_disc"}

MatrixDomainMethods == {"__init__", "bc"}

\* a variant of FractureDomainMethods in which FractureDomain overloads bc too
FractureDomainMethodsWithBc ==
    {"_FractureDomain__init", "bc", "permeability", "source", "aperture"}

\* def __init(self, g, d): a name with two leading underscores and no trailing
\* ones is mangled with the class name; it is not the constructor __init__
FractureDomainMethods ==
    {"_FractureDomain__init", "permeability", "source", "aperture"}

\* a variant of DarcyMPFAMethods in which the method has another name than the
\* one the solver calls
DarcyMPFAMethodsMisnamed == {"__init__", "flux_discr"}

DarcyMPFAMethods == {"__init__", "flux_disc"}

\* the names a class body defines
ClassMethods(cls) ==
    CASE cls = "EllipticData"   -> EllipticDataMethods
      [] cls = "Elliptic"       -> EllipticMethods
      [] cls = "MatrixDomain"   -> MatrixDomainMethods
      [] cls = "FractureDomain" -> FractureDomainMethods
      [] cls = "DarcyMPFA"      -> DarcyMPFAMethods
      [] OTHER                  -> {}

\* the method resolution order of a class (single inheritance)
RECURSIVE Mro(_)
Mro(cls) == IF cls = "object" THEN <<>> ELSE <<cls>> \o Mro(ClassBase(cls))

\* the class whose definition of name an instance of cls uses
Resolve(cls, name) ==
    LET order == Mro(cls)
        hits == {i \in DOMAIN order : name \in ClassMethods(order[i])}
    IN  IF hits = {} THEN "AttributeError"
        ELSE order[CHOOSE i \in hits : \A j \in hits : i <= j]

\* the names of a class body that replace a definition of one of its bases
Overloads(cls) ==
    {name \in ClassMethods(cls) : Resolve(ClassBase(cls), name) # "AttributeError"}

\* EllipticData.__init__(self, g, d), reached from MatrixDomain.__init__
NewData(cls, grid, id) ==
    IF Resolve(cls, "__init__") = "AttributeError" THEN [cls |-> "TypeError"]
    ELSE [cls |-> cls, id |-> id, grid |-> grid.id]

\* EllipticData.bc: the data class assigns Neumann conditions by default, no
\* face is given a Dirichlet label
EllipticData_bc(grid) == BoundaryCondition(grid, <<>>, <<>>)

\* a variant of MatrixDomain.bc that reads the BOUNDARY tag, as cell 3 does
MatrixDomain_bc_BoundaryTag(grid) ==
    LET faces == ArgWhere(HasFaceTag(grid, "BOUNDARY"))
    IN  BoundaryCondition(grid, faces, Repeat("dir", Len(faces)))

\* MatrixDomain.bc
MatrixDomain_bc(grid) ==
    LET faces == ArgWhere(HasFaceTag(grid, "DOMAIN_BOUNDARY"))
    IN  BoundaryCondition(grid, faces, Repeat("dir", Len(faces)))

\* FractureDomain.permeability
FractureDomain_permeability(grid) ==
    LET kxx == ScalarMul(Rat(KxxFactor, 1), Ones(grid.num_cells))
    IN  [cls |-> "SecondOrder", dim |-> TensorDim, kxx |-> kxx]

\* a variant of FractureDomain.source that starts from np.zeros: a point source
FractureDomain_source_Point(grid) ==
    LET val == Zeros(grid.num_cells)
        i == RoundHalf(grid.num_cells)
    IN  IF i >= grid.num_cells THEN [cls |-> "IndexError"]
        ELSE NdArray([val EXCEPT ![i + 1] = 1])

\* FractureDomain.source: an index past the end raises IndexError
FractureDomain_source(grid) ==
    LET val == Ones(grid.num_cells)
        i == RoundHalf(grid.num_cells)
    IN  IF i >= grid.num_cells THEN [cls |-> "IndexError"]
        ELSE NdArray([val EXCEPT ![i + 1] = 1])

\* a variant of FractureDomain.aperture built on np.zeros
FractureDomain_aperture_Zeros(grid) ==
    NdArray(ScalarMul(Rat(ApertureNum, ApertureDen), Zeros(grid.num_cells)))

\* FractureDomain.aperture
FractureDomain_aperture(grid) ==
    NdArray(ScalarMul(Rat(ApertureNum, ApertureDen), Ones(grid.num_cells)))

\* a parameter function of the library's data class that the notebook does
\* not describe: an opaque value of the grid
LibraryDefault(name, grid) == [cls |-> "LibraryDefault", name |-> name, grid |-> grid.id]

\* obj.name() for a data object of class cls on grid
CallParam(cls, name, grid) ==
    LET c == Resolve(cls, name)
    IN  CASE c = "AttributeError"                     -> [cls |-> "AttributeError"]
          [] c = "MatrixDomain" /\ name = "bc"        -> MatrixDomain_bc(grid)
          [] c = "EllipticData" /\ name = "bc"        -> EllipticData_bc(grid)
          [] c = "FractureDomain" /\ name = "permeability"
                                                      -> FractureDomain_permeability(grid)
          [] c = "FractureDomain" /\ name = "source"  -> FractureDomain_source(grid)
          [] c = "FractureDomain" /\ name = "aperture" -> FractureDomain_aperture(grid)
          [] OTHER                                    -> LibraryDefault(name, grid)

\* Elliptic.flux_disc: by default the solver uses the TPFA discretization
Elliptic_flux_disc(id) == [cls |-> "Tpfa", id |-> id]

\* DarcyMPFA.flux_disc
DarcyMPFA_flux_disc(id) == [cls |-> "MpfaMixDim", id |-> id]

\* problem.flux_disc() for a solver object of class cls; id names the new object
CallFluxDisc(cls, id) ==
    LET c == Resolve(cls, "flux_disc")
    IN  CASE c = "DarcyMPFA" -> DarcyMPFA_flux_disc(id)
          [] c = "Elliptic"  -> Elliptic_flux_disc(id)
          [] OTHER           -> [cls |-> "AttributeError"]

----------------------------------------------------------------------------
(* The library calls of the notebook run *)

\* CartGrid([nx, ny]): a 2-d grid of nx * ny cells; its faces and their tags
\* are the library's
CartGrid(id, nx, ny, face_tags) == Grid(id, 2, nx * ny, face_tags)

\* data.Parameters(g)
Parameters(id, grid) ==
    [cls |-> "Parameters", id |-> id, grid |-> grid.id,
     bc |-> EmptyDict, source |-> EmptyDict]

\* param.set_bc(physics, bc_cond): stored under the physics key
SetBc(prm, physics, cond) == [prm EXCEPT !.bc = Put(@, physics, cond)]

\* param.set_source(physics, src): stored under the physics key
SetSource(prm, physics, val) == [prm EXCEPT !.source = Put(@, physics, val)]

\* meshing.cart_grid([f], [nx, ny]): a bucket of the 2-d matrix grid and the
\* 1-d grids of the fracture, fracCells[i] cells in the i-th; face tags of the
\* bucket's grids are not read by the run
CartGridBucket(id, nx, ny, fracCells) ==
    LET matrix == [grid |-> Grid(id + 1, 2, nx * ny, <<>>), data |-> EmptyDict]
        frac(i) == [grid |-> Grid(id + 1 + i, 1, fracCells[i], <<>>), data |-> EmptyDict]
    IN  [cls |-> "GridBucket", id |-> id,
         nodes |-> <<matrix>> \o [i \in DOMAIN fracCells |-> frac(i)]]

\* gb.assign_node_ordering(): every node gets its number
AssignNodeOrdering(bucket) ==
    [bucket EXCEPT !.nodes =
        [i \in DOMAIN @ |-> [@[i] EXCEPT !.data = Put(@, "node_number", i - 1)]]]

\* gb.add_node_props(keys): every node's data gets the key, holding None
AddNodeProps(bucket, key) ==
    [bucket EXCEPT !.nodes =
        [i \in DOMAIN @ |-> [@[i] EXCEPT !.data = Put(@, key, None)]]]

\* elliptic.Elliptic(...) and its subclasses: a solver object over a grid or bucket
NewProblem(cls, id, over) ==
    [cls |-> cls, id |-> id, grid |-> over.id, x |-> None, disc |-> None]

\* the number of unknowns of a grid or of a bucket: one per cell
RECURSIVE SumCells(_)
SumCells(nodes) ==
    IF nodes = <<>> THEN 0
    ELSE nodes[Len(nodes)].grid.num_cells + SumCells(SubSeq(nodes, 1, Len(nodes) - 1))

NumUnknowns(over) ==
    IF over.cls = "GridBucket" THEN SumCells(over.nodes) ELSE over.num_cells

\* the s-th candidate solution of a linear system in n unknowns
Solution(n, s) == NdArray([i \in 1..n |-> s + i])

\* problem.solve(): discretizes with flux_disc(), keeps and returns the solution
Solve(prob, over, id, s) ==
    [prob EXCEPT !.disc = CallFluxDisc(prob.cls, id),
                 !.x = Solution(NumUnknowns(over), s)]

\* the slice of the global vector that belongs to the i-th node of the bucket
NodePart(nodes, i, x) ==
    LET first == SumCells(SubSeq(nodes, 1, i - 1))
    IN  NdArray(SubSeq(x.data, first + 1, first + nodes[i].grid.num_cells))

\* problem.split(key): every node's data gets its part of the solution under key
Split(bucket, key, x) ==
    [bucket EXCEPT !.nodes =
        [i \in DOMAIN @ |-> [@[i] EXCEPT !.data = Put(@, key, NodePart(bucket.nodes, i, x))]]]

----------------------------------------------------------------------------
(* assign_darcy_data (cell 6) *)

\* a variant of DataClass that compares with >=
DataClassGe(grid) == IF grid.dim >= MatrixDim THEN "MatrixDomain" ELSE "FractureDomain"

\* the class assign_darcy_data picks for a grid
DataClass(grid) == IF grid.dim = MatrixDim THEN "MatrixDomain" ELSE "FractureDomain"

\* assign_darcy_data(gb); the i-th new object gets the id firstId + i - 1
AssignDarcyData(bucket, firstId) ==
    LET withKey == AddNodeProps(bucket, "problem")
    IN  [withKey EXCEPT !.nodes =
            [i \in DOMAIN @ |->
                [@[i] EXCEPT !.data =
                    Put(@, "problem", NewData(DataClass(withKey.nodes[i].grid),
                                              withKey.nodes[i].grid, firstId + i - 1))]]]

----------------------------------------------------------------------------
(* The notebook run: the statements of the code cells, top to bottom *)

Cell2 == <<"CartGrid", "compute_geometry">>
Cell3 == <<"Parameters", "dir_bound", "bc_cond", "zeros", "src_set",
           "set_bc", "set_source", "d">>
Cell4 == <<"Elliptic_g", "solve_g", "plot_grid_g">>
Cell5 == <<"cart_grid", "assign_node_ordering">>
Cell6 == <<"def_data_classes">>
\* a variant of Cell7 that splits before it solves
Cell7SplitFirst == <<"assign_darcy_data", "Elliptic_gb", "split", "solve", "plot_grid">>
Cell7 == <<"assign_darcy_data", "Elliptic_gb", "solve", "split", "plot_grid">>
Cell8 == <<"def_DarcyMPFA">>
Cell9 == <<"DarcyMPFA_gb", "solve", "split", "plot_grid">>

Notebook == Cell2 \o Cell3 \o Cell4 \o Cell5 \o Cell6 \o Cell7 \o Cell8 \o Cell9

\* pc is the position of the next statement; 0 after an exception ended the run
Stmt == IF pc \in DOMAIN Notebook THEN Notebook[pc]
        ELSE IF pc = 0 THEN "raised" ELSE "done"

\* the physics key of set_bc and of set_source
BcKey == "flow"
\* a variant of SourceKey: the source registered under another physics
SourceKeyTransport == "transport"
SourceKey == "flow"

\* the key of problem.split(...) and of plot_grid(gb, ...)
\* variants of SplitKey: the key of the data objects, and a misspelt key
SplitKeyProblem == "problem"
SplitKeyMisspelt == "presure"
SplitKey == "pressure"
PlotKey == "pressure"

Init ==
    /\ pc = 1
    /\ classes = {"EllipticData", "Elliptic"}
    /\ g = None
    /\ param = None
    /\ dir_bound = None
    /\ bc_cond = None
    /\ src = None
    /\ d = None
    /\ problem = None
    /\ p = None
    /\ gb = None
    /\ calls = <<>>
    /\ nextId = 1
    /\ ret = None

\* g = CartGrid([11, 11])
StmtCartGrid ==
    /\ Stmt = "CartGrid"
    /\ \E ft \in FaceTaggings(MaxFaces, PlainFaceTagSets) :
          g' = CartGrid(nextId, GridNx, GridNy, ft)
    /\ nextId' = nextId + 1
    /\ pc' = pc + 1
    /\ UNCHANGED <<classes, param, dir_bound, bc_cond, src, d, problem, p, gb, calls, ret>>

\* g.compute_geometry()
StmtComputeGeometry ==
    /\ Stmt = "compute_geometry"
    /\ g' = [g EXCEPT !.geometry = TRUE]
    /\ pc' = pc + 1
    /\ UNCHANGED <<classes, param, dir_bound, bc_cond, src, d, problem, p, gb, calls, nextId, ret>>

\* param = data.Parameters(g)
StmtParameters ==
    /\ Stmt = "Parameters"
    /\ param' = Parameters(nextId, g)
    /\ nextId' = nextId + 1
    /\ pc' = pc + 1
    /\ UNCHANGED <<classes, g, dir_bound, bc_cond, src, d, problem, p, gb, calls, ret>>

\* dir_bound = np.ravel(np.argwhere((g.has_face_tag(FaceTag.BOUNDARY))))
StmtDirBound ==
    /\ Stmt = "dir_bound"
    /\ dir_bound' = NdArray(DirBound(g))
    /\ pc' = pc + 1
    /\ UNCHANGED <<classes, g, param, bc_cond, src, d, problem, p, gb, calls, nextId, ret>>

\* bc_cond = bc.BoundaryCondition(g, dir_bound, ['dir']*dir_bound.size)
StmtBcCond ==
    /\ Stmt = "bc_cond"
    /\ bc_cond' = BoundaryCondition(g, dir_bound.data, Repeat("dir", Len(dir_bound.data)))
    /\ pc' = pc + 1
    /\ UNCHANGED <<classes, g, param, dir_bound, src, d, problem, p, gb, calls, nextId, ret>>

\* src = np.zeros(g.num_cells)
StmtZeros ==
    /\ Stmt = "zeros"
    /\ src' = NdArray(Zeros(g.num_cells))
    /\ pc' = pc + 1
    /\ UNCHANGED <<classes, g, param, dir_bound, bc_cond, d, problem, p, gb, calls, nextId, ret>>

\* src[60] = 1; an index past the end raises IndexError
StmtSrcSet ==
    /\ Stmt = "src_set"
    /\ src' = IF SrcIndex < Len(src.data)
              THEN NdArray([src.data EXCEPT ![SrcIndex + 1] = 1]) ELSE src
    /\ pc' = IF SrcIndex < Len(src.data) THEN pc + 1 ELSE 0
    /\ UNCHANGED <<classes, g, param, dir_bound, bc_cond, d, problem, p, gb, calls, nextId, ret>>

\* param.set_bc('flow', bc_cond)
StmtSetBc ==
    /\ Stmt = "set_bc"
    /\ param' = SetBc(param, BcKey, bc_cond)
    /\ pc' = pc + 1
    /\ UNCHANGED <<classes, g, dir_bound, bc_cond, src, d, problem, p, gb, calls, nextId, ret>>

\* param.set_source('flow', src)
StmtSetSource ==
    /\ Stmt = "set_source"
    /\ param' = SetSource(param, SourceKey, src)
    /\ pc' = pc + 1
    /\ UNCHANGED <<classes, g, dir_bound, bc_cond, src, d, problem, p, gb, calls, nextId, ret>>

\* d = {'param': param}
StmtD ==
    /\ Stmt = "d"
    /\ d' = Put(EmptyDict, "param", param)
    /\ pc' = pc + 1
    /\ UNCHANGED <<classes, g, param, dir_bound, bc_cond, src, problem, p, gb, calls, nextId, ret>>

\* problem = elliptic.Elliptic(g, d)
StmtEllipticG ==
    /\ Stmt = "Elliptic_g"
    /\ problem' = NewProblem("Elliptic", nextId, g)
    /\ calls' = Append(calls, [fn |-> "Elliptic", obj |-> nextId, g |-> g, d |-> d])
    /\ nextId' = nextId + 1
    /\ pc' = pc + 1
    /\ UNCHANGED <<classes, g, param, dir_bound, bc_cond, src, d, p, gb, ret>>

\* p = problem.solve()
StmtSolveG ==
    /\ Stmt = "solve_g"
    /\ \E s \in 0..MaxSol : problem' = Solve(problem, g, nextId, s)
    /\ p' = problem'.x
    /\ calls' = Append(calls, [fn |-> "solve", obj |-> problem.id,
                               disc |-> problem'.disc, ret |-> problem'.x])
    /\ nextId' = nextId + 1
    /\ pc' = pc + 1
    /\ UNCHANGED <<classes, g, param, dir_bound, bc_cond, src, d, gb, ret>>

\* plot_grid(g, p)
StmtPlotGridG ==
    /\ Stmt = "plot_grid_g"
    /\ calls' = Append(calls, [fn |-> "plot_grid", grid |-> g.id, what |-> p])
    /\ pc' = pc + 1
    /\ UNCHANGED <<classes, g, param, dir_bound, bc_cond, src, d, problem, p, gb, nextId, ret>>

\* f = np.array([[0,10],[5,5]]); gb = meshing.cart_grid([f], [10,10])
StmtCartGridBucket ==
    /\ Stmt = "cart_grid"
    /\ \E k \in 1..MaxFrac : \E fracCells \in [1..k -> 1..MaxFracCells] :
          /\ gb' = CartGridBucket(nextId, MatrixNx, MatrixNy, fracCells)
          /\ nextId' = nextId + k + 2
    /\ pc' = pc + 1
    /\ UNCHANGED <<classes, g, param, dir_bound, bc_cond, src, d, problem, p, calls, ret>>

\* gb.assign_node_ordering()
StmtAssignNodeOrdering ==
    /\ Stmt = "assign_node_ordering"
    /\ gb' = AssignNodeOrdering(gb)
    /\ pc' = pc + 1
    /\ UNCHANGED <<classes, g, param, dir_bound, bc_cond, src, d, problem, p, calls, nextId, ret>>

\* cell 6: class MatrixDomain, class FractureDomain, def assign_darcy_data
StmtDefDataClasses ==
    /\ Stmt = "def_data_classes"
    /\ classes' = classes \cup {"MatrixDomain", "FractureDomain", "assign_darcy_data"}
    /\ pc' = pc + 1
    /\ UNCHANGED <<g, param, dir_bound, bc_cond, src, d, problem, p, gb, calls, nextId, ret>>

\* assign_darcy_data(gb)
StmtAssignDarcyData ==
    /\ Stmt = "assign_darcy_data"
    /\ gb' = AssignDarcyData(gb, nextId)
    /\ calls' = Append(calls, [fn |-> "assign_darcy_data", grid |-> gb.id])
    /\ nextId' = nextId + Len(gb.nodes)
    /\ pc' = pc + 1
    /\ UNCHANGED <<classes, g, param, dir_bound, bc_cond, src, d, problem, p, ret>>

\* problem = elliptic.Elliptic(gb)
StmtEllipticGb ==
    /\ Stmt = "Elliptic_gb"
    /\ problem' = NewProblem("Elliptic", nextId, gb)
    /\ calls' = Append(calls, [fn |-> "Elliptic", obj |-> nextId, g |-> gb, d |-> None])
    /\ nextId' = nextId + 1
    /\ pc' = pc + 1
    /\ UNCHANGED <<classes, g, param, dir_bound, bc_cond, src, d, p, gb, ret>>

\* cell 8: class DarcyMPFA
StmtDefDarcyMPFA ==
    /\ Stmt = "def_DarcyMPFA"
    /\ classes' = classes \cup {"DarcyMPFA"}
    /\ pc' = pc + 1
    /\ UNCHANGED <<g, param, dir_bound, bc_cond, src, d, problem, p, gb, calls, nextId, ret>>

\* problem = DarcyMPFA(gb); NameError when the class is not defined
StmtDarcyMPFAGb ==
    /\ Stmt = "DarcyMPFA_gb"
    /\ problem' = IF "DarcyMPFA" \in classes
                  THEN NewProblem("DarcyMPFA", nextId, gb) ELSE problem
    /\ calls' = IF "DarcyMPFA" \in classes
                THEN Append(calls, [fn |-> "DarcyMPFA", obj |-> nextId, g |-> gb, d |-> None])
                ELSE calls
    /\ nextId' = nextId + 1
    /\ pc' = IF "DarcyMPFA" \in classes THEN pc + 1 ELSE 0
    /\ UNCHANGED <<classes, g, param, dir_bound, bc_cond, src, d, p, gb, ret>>

\* problem.solve() on the bucket; the returned vector is dropped
StmtSolve ==
    /\ Stmt = "solve"
    /\ \E s \in 0..MaxSol : problem' = Solve(problem, gb, nextId, s)
    /\ calls' = Append(calls, [fn |-> "solve", obj |-> problem.id,
                               disc |-> problem'.disc])
    /\ nextId' = nextId + 1
    /\ pc' = pc + 1
    /\ UNCHANGED <<classes, g, param, dir_bound, bc_cond, src, d, p, gb, ret>>

\* problem.split('pressure'); a problem that was not solved has no solution to split
StmtSplit ==
    /\ Stmt = "split"
    /\ calls' = Append(calls, [fn |-> "split", obj |-> problem.id, key |-> SplitKey])
    /\ gb' = IF problem.x # None THEN Split(gb, SplitKey, problem.x) ELSE gb
    /\ pc' = IF problem.x # None THEN pc + 1 ELSE 0
    /\ UNCHANGED <<classes, g, param, dir_bound, bc_cond, src, d, problem, p, nextId, ret>>

\* plot_grid(gb, 'pressure')
StmtPlotGrid ==
    /\ Stmt = "plot_grid"
    /\ calls' = Append(calls, [fn |-> "plot_grid", grid |-> gb.id, what |-> Str(PlotKey)])
    /\ pc' = pc + 1
    /\ UNCHANGED <<classes, g, param, dir_bound, bc_cond, src, d, problem, p, gb, nextId, ret>>

Next ==
    \/ StmtCartGrid
    \/ StmtComputeGeometry
    \/ StmtParameters
    \/ StmtDirBound
    \/ StmtBcCond
    \/ StmtZeros
    \/ StmtSrcSet
    \/ StmtSetBc
    \/ StmtSetSource
    \/ StmtD
    \/ StmtEllipticG
    \/ StmtSolveG
    \/ StmtPlotGridG
    \/ StmtCartGridBucket
    \/ StmtAssignNodeOrdering
    \/ StmtDefDataClasses
    \/ StmtAssignDarcyData
    \/ StmtEllipticGb
    \/ StmtDefDarcyMPFA
    \/ StmtDarcyMPFAGb
    \/ StmtSolve
    \/ StmtSplit
    \/ StmtPlotGrid

Spec == Init /\ [][Next]_vars

----------------------------------------------------------------------------
(* assign_darcy_data applied to an arbitrary bucket *)

\* the buckets of at most MaxGrids grids, each of a dimension in 0..MaxDim
Buckets ==
    {[cls |-> "GridBucket", id |-> 1,
      nodes |-> [i \in DOMAIN dims |-> [grid |-> Grid(i + 1, dims[i], 1, <<>>),
                                 data |-> Put(EmptyDict, "node_number", i - 1)]]] :
        dims \in UNION {[1..n -> 0..MaxDim] : n \in 1..MaxGrids}}

InitAssign ==
    /\ pc = "assign_call"
    /\ classes = {"EllipticData", "Elliptic", "MatrixDomain", "FractureDomain",
                  "assign_darcy_data"}
    /\ gb \in Buckets
    /\ nextId = Len(gb.nodes) + 2
    /\ calls = <<>>
    /\ g = None /\ param = None /\ dir_bound = None /\ bc_cond = None
    /\ src = None /\ d = None /\ problem = None /\ p = None /\ ret = None

\* assign_darcy_data(gb)
CallAssignDarcyData ==
    /\ pc = "assign_call"
    /\ gb' = AssignDarcyData(gb, nextId)
    /\ calls' = Append(calls, [fn |-> "assign_darcy_data", grid |-> gb.id])
    /\ nextId' = nextId + Len(gb.nodes)
    /\ pc' = "assign_returned"
    /\ UNCHANGED <<classes, g, param, dir_bound, bc_cond, src, d, problem, p, ret>>

NextAssign == CallAssignDarcyData

SpecAssign == InitAssign /\ [][NextAssign]_vars

----------------------------------------------------------------------------
(* The parameter functions of MatrixDomain and FractureDomain applied to   *)
(* an arbitrary grid and data dictionary                                   *)

DataDicts == {EmptyDict, Put(EmptyDict, "node_number", 0)}

InitParam ==
    /\ pc = "param_new"
    /\ classes = {"EllipticData", "Elliptic", "MatrixDomain", "FractureDomain",
                  "assign_darcy_data"}
    \* a grid has at least one cell
    /\ \E dim \in 0..MaxDim, n \in 1..MaxCells, ft \in FaceTaggings(MaxFaces, FaceTagSets) :
          g = Grid(1, dim, n, ft)
    /\ d \in DataDicts
    /\ nextId = 2
    /\ calls = <<>>
    /\ param = None /\ dir_bound = None /\ bc_cond = None /\ src = None
    /\ problem = None /\ p = None /\ gb = None /\ ret = None

\* MatrixDomain(g, d) or FractureDomain(g, d)
ParamNew ==
    /\ pc = "param_new"
    /\ \E cls \in {"MatrixDomain", "FractureDomain"} : problem' = NewData(cls, g, nextId)
    /\ nextId' = nextId + 1
    /\ pc' = "param_call"
    /\ UNCHANGED <<classes, g, param, dir_bound, bc_cond, src, d, p, gb, calls, ret>>

\* obj.name() on the data object
ParamCall(name) ==
    /\ pc = "param_call"
    /\ ret' = [fn |-> name, value |-> CallParam(problem.cls, name, g)]
    /\ UNCHANGED <<pc, classes, g, param, dir_bound, bc_cond, src, d, problem, p,
                   gb, calls, nextId>>

ParamBc == ParamCall("bc")
ParamPermeability == ParamCall("permeability")
ParamSource == ParamCall("source")
ParamAperture == ParamCall("aperture")

NextParam ==
    \/ ParamNew
    \/ ParamBc
    \/ ParamPermeability
    \/ ParamSource
    \/ ParamAperture

SpecParam == InitParam /\ [][NextParam]_vars

----------------------------------------------------------------------------
(* Properties of the notebook run (Spec) *)

Done == pc = Len(Notebook) + 1

Constructors == {"Elliptic", "DarcyMPFA"}

\* the call made a problem over the bucket
IsBucketConstructor(c) == c.fn \in Constructors /\ c.g.cls = "GridBucket"

\* the call is plot_grid(gb, <key>)
IsBucketPlot(c) == c.fn = "plot_grid" /\ c.what.cls = "str"

\* the positions before k at which a problem over the bucket was constructed
BucketProblemsBefore(k) == {m \in 1..(k - 1) : IsBucketConstructor(calls[m])}

\* the largest element of a non-empty set of integers
Last(S) == CHOOSE m \in S : \A n \in S : n <= m

\* C1: in both grid-bucket runs the calls come in the order construct, solve,
\* split, plot_grid: no split of a problem without an earlier solve of it, no
\* solve without its construction, and every plot_grid(gb, 'pressure') comes
\* after a split of the latest problem that itself came after the last solve
\* of that problem.
C1_CallOrder ==
    \A k \in DOMAIN calls :
        /\ calls[k].fn = "solve" =>
              \E c \in 1..(k - 1) : /\ calls[c].fn \in Constructors
                                    /\ calls[c].obj = calls[k].obj
        /\ calls[k].fn = "split" =>
              \E i \in 1..(k - 1) : /\ calls[i].fn = "solve"
                                    /\ calls[i].obj = calls[k].obj
        /\ IsBucketPlot(calls[k]) =>
              /\ BucketProblemsBefore(k) # {}
              /\ LET c == Last(BucketProblemsBefore(k))
                     solves == {i \in (c + 1)..(k - 1) :
                                   calls[i].fn = "solve" /\ calls[i].obj = calls[c].obj}
                 IN  /\ solves # {}
                     /\ \E j \in (Last(solves) + 1)..(k - 1) :
                           calls[j].fn = "split" /\ calls[j].obj = calls[c].obj

\* both bucket runs have plotted
C1_Witness ==
    /\ Done
    /\ Cardinality({k \in DOMAIN calls : IsBucketPlot(calls[k])}) = 2
    /\ \E k \in DOMAIN calls : calls[k].fn = "DarcyMPFA"

\* C2: when Elliptic(g, d) is constructed, g has its geometry and d['param'] is
\* a Parameters object of g with a boundary condition and a source under the
\* key 'flow'; the solve of that problem comes later, and plot_grid(g, p) is
\* handed g and the vector that solve returned.
C2_SingleGridRun ==
    \A k \in DOMAIN calls :
        /\ (calls[k].fn = "Elliptic" /\ calls[k].g.cls = "Grid") =>
              /\ calls[k].g.geometry
              /\ DOMAIN calls[k].d = {"param"}
              /\ calls[k].d["param"].cls = "Parameters"
              /\ calls[k].d["param"].grid = calls[k].g.id
              /\ "flow" \in DOMAIN calls[k].d["param"].bc
              /\ "flow" \in DOMAIN calls[k].d["param"].source
              /\ calls[k].d["param"].bc["flow"].cls = "BoundaryCondition"
              /\ calls[k].d["param"].source["flow"].cls = "ndarray"
              /\ \A i \in 1..(k - 1) : calls[i].fn # "solve"
        /\ (calls[k].fn = "plot_grid" /\ calls[k].what.cls = "ndarray") =>
              \E c \in 1..(k - 1) : \E i \in (c + 1)..(k - 1) :
                  /\ calls[c].fn = "Elliptic" /\ calls[c].g.cls = "Grid"
                  /\ calls[i].fn = "solve" /\ calls[i].obj = calls[c].obj
                  /\ calls[k].what = calls[i].ret
                  /\ calls[k].grid = calls[c].g.id

\* the single-grid problem was constructed, solved and plotted
C2_Witness ==
    \E k \in DOMAIN calls : calls[k].fn = "plot_grid" /\ calls[k].what.cls = "ndarray"

\* the Python indices of the faces of grid that carry tag
TaggedFaces(grid, tag) == {i - 1 : i \in {j \in DOMAIN grid.face_tags : tag \in grid.face_tags[j]}}

\* the faces a boundary condition labels 'dir'
DirFaces(cond) == {cond.faces[i] : i \in {j \in DOMAIN cond.faces : cond.cond[j] = "dir"}}

\* the boundary condition has one label per face, names no face twice, and
\* labels exactly the faces of the set 'dir'
DirichletExactlyOn(cond, faces) ==
    /\ Len(cond.cond) = Cardinality(faces)
    /\ Len(cond.faces) = Cardinality(faces)
    /\ \A i \in DOMAIN cond.cond : cond.cond[i] = "dir"
    /\ {cond.faces[i] : i \in DOMAIN cond.faces} = faces
    /\ DirFaces(cond) = faces

\* C3: the boundary condition of the single-grid run has exactly one 'dir'
\* label per face of g tagged BOUNDARY, no other label and no other face, and
\* that is the condition registered with the parameters.
C3_SingleGridDirichlet ==
    /\ bc_cond # None =>
          /\ bc_cond.grid = g.id
          /\ DirichletExactlyOn(bc_cond, TaggedFaces(g, "BOUNDARY"))
    /\ (param # None /\ "flow" \in DOMAIN param.bc) =>
          DirichletExactlyOn(param.bc["flow"], TaggedFaces(g, "BOUNDARY"))

\* the condition was built for a grid with a BOUNDARY face and a face that
\* carries another tag only
C3_Witness ==
    /\ param # None /\ "flow" \in DOMAIN param.bc
    /\ TaggedFaces(g, "BOUNDARY") # {}
    /\ TaggedFaces(g, "DOMAIN_BOUNDARY") \ TaggedFaces(g, "BOUNDARY") # {}

----------------------------------------------------------------------------
(* Properties of the parameter functions (SpecParam) *)

\* the last call on the data object was obj.name()
Returned(name) == ret # None /\ ret.fn = name

\* C4: on every grid, for a MatrixDomain and for a FractureDomain, bc() is
\* MatrixDomain's and not the data class's default: it returns a condition with
\* exactly one 'dir' label per face tagged DOMAIN_BOUNDARY and none for any
\* other face, whatever other tags that face carries.
C4_BcOnDomainBoundary ==
    Returned("bc") =>
        /\ Resolve(problem.cls, "bc") = "MatrixDomain"
        /\ ret.value.cls = "BoundaryCondition"
        /\ ret.value.grid = g.id
        /\ DirichletExactlyOn(ret.value, TaggedFaces(g, "DOMAIN_BOUNDARY"))
        /\ TaggedFaces(g, "DOMAIN_BOUNDARY") # {} => ret.value # EllipticData_bc(g)

\* bc() of a FractureDomain returned for a grid with a face on the domain
\* boundary and a face on a fracture
C4_Witness ==
    /\ Returned("bc")
    /\ problem.cls = "FractureDomain"
    /\ DirFaces(ret.value) # {}
    /\ \E i \in DOMAIN g.face_tags : g.face_tags[i] = {"BOUNDARY", "FRACTURE"}

\* C6: FractureDomain overloads exactly permeability, source and aperture; any
\* other function called on a FractureDomain, bc() in particular, returns what
\* it returns on a MatrixDomain of the same grid.
C6_FractureInheritsMatrix ==
    /\ Overloads("FractureDomain") = {"permeability", "source", "aperture"}
    /\ (ret # None /\ problem.cls = "FractureDomain"
           /\ ret.fn \notin {"permeability", "source", "aperture"}) =>
          /\ ret.value = CallParam("MatrixDomain", ret.fn, g)
          /\ ret.fn = "bc" => ret.value = MatrixDomain_bc(g)

\* bc() of a FractureDomain returned for a grid with a DOMAIN_BOUNDARY face
C6_Witness ==
    /\ Returned("bc")
    /\ problem.cls = "FractureDomain"
    /\ TaggedFaces(g, "DOMAIN_BOUNDARY") # {}
    /\ g.dim = 1

\* C7: on a FractureDomain, aperture() is a vector of one 0.01 per cell and
\* permeability() is built from a vector kxx of one 100 per cell, for every
\* data dictionary.
C7_FractureApertureAndPermeability ==
    /\ (Returned("aperture") /\ problem.cls = "FractureDomain") =>
          /\ ret.value.cls = "ndarray"
          /\ ret.value.data = [i \in 1..g.num_cells |-> [num |-> 1, den |-> 100]]
    /\ (Returned("permeability") /\ problem.cls = "FractureDomain") =>
          /\ ret.value.cls = "SecondOrder"
          /\ ret.value.kxx = [i \in 1..g.num_cells |-> [num |-> 100, den |-> 1]]

\* aperture() of a FractureDomain returned for a fracture grid of several
\* cells whose data dictionary is not empty
C7_Witness ==
    /\ Returned("aperture")
    /\ problem.cls = "FractureDomain"
    /\ g.dim = 1 /\ g.num_cells >= 2
    /\ d # EmptyDict

----------------------------------------------------------------------------
(* Properties of assign_darcy_data (SpecAssign) *)

\* C5: after assign_darcy_data(gb) every node of the bucket has a 'problem'
\* entry: a MatrixDomain exactly for the grids of dimension 2, a FractureDomain
\* for every other grid, each built on the grid of its own node.
C5_ProblemPerGrid ==
    pc = "assign_returned" =>
        \A i \in DOMAIN gb.nodes :
            /\ "problem" \in DOMAIN gb.nodes[i].data
            /\ gb.nodes[i].data["problem"].cls =
                  (IF gb.nodes[i].grid.dim = 2 THEN "MatrixDomain" ELSE "FractureDomain")
            /\ gb.nodes[i].data["problem"].grid = gb.nodes[i].grid.id
            /\ \A j \in DOMAIN gb.nodes :
                  j # i => gb.nodes[j].data["problem"].id # gb.nodes[i].data["problem"].id

\* assign_darcy_data returned for a bucket with a 2-d, a 3-d and a lower-dimensional grid
C5_Witness ==
    /\ pc = "assign_returned"
    /\ \E i, j, k \in DOMAIN gb.nodes :
          /\ gb.nodes[i].grid.dim = 2
          /\ gb.nodes[j].grid.dim = 3
          /\ gb.nodes[k].grid.dim < 2

----------------------------------------------------------------------------
(* Properties of the solver objects in the notebook run (Spec) *)

\* the class the problem with this id was constructed as
ConstructedAs(id) ==
    calls[CHOOSE c \in DOMAIN calls : calls[c].fn \in Constructors /\ calls[c].obj = id].fn

ProblemEntries(bucket) ==
    [i \in DOMAIN bucket.nodes |->
        IF "problem" \in DOMAIN bucket.nodes[i].data
        THEN bucket.nodes[i].data["problem"] ELSE [cls |-> "KeyError"]]

\* C9: assign_darcy_data is called once; from the construction of a problem
\* over the bucket on, through solve and split and up to and after the
\* construction and solve of DarcyMPFA(gb), every node's 'problem' entry is
\* the data object the first problem was constructed with.
C9_DataAssignedOnce ==
    /\ Cardinality({k \in DOMAIN calls : calls[k].fn = "assign_darcy_data"}) <= 1
    /\ \A k \in DOMAIN calls :
          IsBucketConstructor(calls[k]) =>
              /\ \A i \in DOMAIN calls[k].g.nodes :
                    ProblemEntries(calls[k].g)[i].cls = DataClass(calls[k].g.nodes[i].grid)
              /\ ProblemEntries(gb) = ProblemEntries(calls[k].g)

\* DarcyMPFA(gb) was constructed, solved and split
C9_Witness ==
    /\ \E k \in DOMAIN calls : calls[k].fn = "DarcyMPFA"
    /\ calls[Len(calls)].fn = "split"

\* the arrays of a sequence of parts, one after the other
RECURSIVE Concat(_)
Concat(parts) ==
    IF parts = <<>> THEN <<>>
    ELSE Concat(SubSeq(parts, 1, Len(parts) - 1)) \o parts[Len(parts)].data

\* the last call on the current problem is a split
SplitIsLatest ==
    /\ problem # None
    /\ LET mine == {k \in DOMAIN calls :
                       calls[k].fn \in {"solve", "split"} /\ calls[k].obj = problem.id}
       IN  mine # {} /\ calls[Last(mine)].fn = "split"

----------------------------------------------------------------------------
(* Properties of the source terms *)

\* the statement stmt of the notebook has run
Passed(stmt) == pc # 0 /\ \E i \in 1..(pc - 1) : Notebook[i] = stmt

\* the Python indices of the non-zero entries of an array
NonZero(arr) == {i - 1 : i \in {j \in DOMAIN arr.data : arr.data[j] # 0}}

\* C11: once src[60] = 1 has run, src has one entry per cell of g, 121 of them,
\* entry 60 is 1 and every other entry is 0; 60 is a valid index and is the
\* cell of column 5 and row 5, the centre of the 11 x 11 grid, when cells are
\* numbered row by row.  The vector registered as the 'flow' source is that one.
C11_SingleGridPointSource ==
    /\ Passed("src_set") =>
          /\ src.cls = "ndarray"
          /\ Len(src.data) = g.num_cells
          /\ Len(src.data) = 121
          /\ SrcIndex < Len(src.data)
          /\ src.data = [i \in 1..121 |-> IF i = 60 + 1 THEN 1 ELSE 0]
          /\ NonZero(src) = {60}
          /\ SrcIndex = 5 * GridNx + 5
          /\ GridNx = 2 * 5 + 1 /\ GridNy = 2 * 5 + 1
    /\ Passed("set_source") => param.source["flow"] = src

\* the source was assigned and registered with the parameters
C11_Witness ==
    /\ Passed("set_source")
    /\ NonZero(param.source["flow"]) # {}
    /\ g.geometry

\* C12: source() of a FractureDomain returns a vector of one 1 per cell: the
\* entry it assigns, round(num_cells/2), is a valid index and held 1 already,
\* so on a grid of several cells the result is not a point source.
C12_FractureUniformSource ==
    (Returned("source") /\ problem.cls = "FractureDomain") =>
        /\ ret.value.cls = "ndarray"
        /\ Len(ret.value.data) = g.num_cells
        /\ \A i \in DOMAIN ret.value.data : ret.value.data[i] = 1
        /\ RoundHalf(g.num_cells) \in 0..(g.num_cells - 1)
        /\ Ones(g.num_cells)[RoundHalf(g.num_cells) + 1] = 1
        /\ NonZero(ret.value) = 0..(g.num_cells - 1)
        /\ g.num_cells >= 2 => Cardinality(NonZero(ret.value)) > 1

\* source() of a FractureDomain returned for a fracture grid of several cells
C12_Witness ==
    /\ Returned("source")
    /\ problem.cls = "FractureDomain"
    /\ g.dim = 1 /\ g.num_cells >= 2
    /\ Cardinality(NonZero(ret.value)) = g.num_cells

====
